---- MODULE Spec2Model ----
(***************************************************************************)
(* Authentication and session lifecycle of the Multilayered Cyber Defense  *)
(* Platform dashboard: auth/session_manager.py, auth/auth_manager.py,      *)
(* auth/password_utils.py, database/queries.py and the Streamlit page      *)
(* scripts under pages/.  One browsing context is modelled: its            *)
(* st.session_state, the clock, the users table, the two security.yaml     *)
(* files the pages read and write, and a trace of the most recent script   *)
(* run.                                                                    *)
(***************************************************************************)
EXTENDS Integers, Sequences, FiniteSets, TLC

VARIABLES
    now,            \* datetime.now(), in minutes
    ss,             \* st.session_state of the browsing context
    users,          \* the users table of cyber_defense.db
    security_yaml,  \* <root>/config/security.yaml, written by System_Configuration
    login_config,   \* security_config loaded by pages/login.py (pages/config/security.yaml)
    screen,         \* the form or button the last script run left on the screen
    run,            \* trace of the script run the last step made (idle after a tick)
    hist            \* history of the session: last login / last activity times

vars == <<now, ss, users, security_yaml, login_config, screen, run, hist>>

----------------------------------------------------------------------------
(* Bounds of the model *)

MaxNow == 60

\* minutes that may pass between two script runs: just inside, exactly at and
\* just beyond a 30 minute window
TimeDeltas == {29, 30, 31}

----------------------------------------------------------------------------
(* Python values: None is the empty tuple, a value v is <<v>> *)

None == <<>>

Some(v) == <<v>>

\* the value of F at the value of e: a statement "x = e" followed by F(x)
Bind(e, F(_)) == CHOOSE y \in {F(x) : x \in {e}} : TRUE

\* auth/session_manager.py: SESSION_TIMEOUT_MINUTES = 30
SESSION_TIMEOUT_MINUTES == 30

\* pages/login.py: security_config.get('max_login_attempts', 5)
DEFAULT_MAX_LOGIN_ATTEMPTS == 5

\* pages/System_Configuration.py: config.get('session_timeout_minutes', 30)
DEFAULT_SESSION_TIMEOUT == 30

----------------------------------------------------------------------------
(* auth/password_utils.py: bcrypt as an ideal salted hash.  A hash string   *)
(* carries its salt and stands for the password it was computed from; a    *)
(* value that is no bcrypt hash string makes the call raise: None has no   *)
(* encode(), and checkpw rejects a salt it cannot parse.                   *)

Salts == {"s1", "s2"}

hash_password_mut(plain_password, salt) == <<"$2b$", salt>>

\* bcrypt.hashpw(password_bytes, bcrypt.gensalt()).decode('utf-8')
hash_password(plain_password, salt) == <<"$2b$", salt, plain_password>>

WellFormedHash(h) == Len(h) = 3 /\ h[1] = "$2b$"

\* password_hash.encode('utf-8') and bcrypt.checkpw(password_bytes, hash_bytes):
\* "true", "false", or "raises"
checkpw(plain_password, password_hash) ==
    IF ~WellFormedHash(password_hash) THEN "raises"
    ELSE IF password_hash[3] = plain_password THEN "true"
    ELSE "false"

verify_password_mut(plain_password, password_hash) ==
    LET r == checkpw(plain_password, password_hash)
    IN  [raised |-> r = "raises", value |-> r = "true"]

\* result: whether the call raised, and the value returned.  except Exception:
\* return False
verify_password(plain_password, password_hash) ==
    LET r == checkpw(plain_password, password_hash)
    IN  [raised |-> FALSE, value |-> r = "true"]

----------------------------------------------------------------------------
(* database/queries.py: the users table of cyber_defense.db *)

\* the rows of the table when the context starts
UserTable ==
    { [id |-> 1, username |-> "admin", password_hash |-> hash_password("admin", "s1"),
       role |-> "admin", active |-> TRUE],
      [id |-> 2, username |-> "bob", password_hash |-> hash_password("admin", "s2"),
       role |-> "viewer", active |-> FALSE] }

\* what the user types into the form of pages/login.py: the right and a wrong
\* password of an active account, the right and a wrong password of an
\* inactive account, an unknown name, and a form with an empty field
FormInputs ==
    { [username |-> "admin", password |-> "admin"],
      [username |-> "admin", password |-> "wrong"],
      [username |-> "bob", password |-> "admin"],
      [username |-> "bob", password |-> "wrong"],
      [username |-> "nobody", password |-> "admin"],
      [username |-> "", password |-> "admin"],
      [username |-> "admin", password |-> ""] }

NoInput == [username |-> "", password |-> ""]

\* secrets.token_hex(32): a token the context does not hold already
Tokens == {"tok1", "tok2"}

fresh_token_mut(s) == IF s.session_token = None THEN "tok1" ELSE s.session_token[1]

fresh_token(s) == IF s.session_token = <<"tok1">> THEN "tok2" ELSE "tok1"

get_user_by_username_mut(username, db_ok, table) ==
    IF \E u \in table : u.username = username
    THEN Some(CHOOSE u \in table : u.username = username)
    ELSE None

\* db_ok = FALSE: the connection or the query fails, the function returns None
get_user_by_username(username, db_ok, table) ==
    IF db_ok /\ \E u \in table : u.username = username
    THEN Some(CHOOSE u \in table : u.username = username)
    ELSE None

\* the value returned: no connection or a failing UPDATE gives False.  (The
\* last_login column it writes is read by no page and is left out.)
update_last_login(user_id, db_ok) == db_ok

\* roles an administrator of the database may give to a user
Roles == {"admin", "viewer"}

----------------------------------------------------------------------------
(* auth/auth_manager.py *)

account_active_mut(user) == TRUE

\* user.get('active', False)
account_active(user) == user.active

authenticate_user_mut(s, username, password, db_ok, table) ==
    LET user == get_user_by_username(username, db_ok, table)
        quiet == [user |-> None, found |-> user, verify_called |-> FALSE,
                  raised |-> FALSE, s |-> s, table |-> table]
    IN
    IF user = None
    THEN quiet
    ELSE IF ~account_active(user[1])
    THEN quiet
    ELSE LET v == verify_password(password, user[1].password_hash) IN
         IF v.raised
         THEN [quiet EXCEPT !.verify_called = TRUE, !.raised = TRUE]
         ELSE IF v.value
         THEN [quiet EXCEPT !.verify_called = TRUE, !.user = user]
         ELSE [quiet EXCEPT !.verify_called = TRUE,
                            !.s = [s EXCEPT !.login_attempts = @ + 1]]

\* result: the user returned (or None), the row found, whether
\* verify_password was called, whether the except branch was taken, and the
\* session state and the users table the call leaves behind
authenticate_user(s, username, password, db_ok, table) ==
    LET user == get_user_by_username(username, db_ok, table)
        quiet == [user |-> None, found |-> user, verify_called |-> FALSE,
                  raised |-> FALSE, s |-> s, table |-> table]
    IN
    IF user = None
    THEN quiet
    ELSE IF ~account_active(user[1])
    THEN quiet
    ELSE LET v == verify_password(password, user[1].password_hash) IN
         IF v.raised
         THEN [quiet EXCEPT !.verify_called = TRUE, !.raised = TRUE]
         ELSE IF v.value
         THEN [quiet EXCEPT !.verify_called = TRUE, !.user = user]
         ELSE [quiet EXCEPT !.verify_called = TRUE]

----------------------------------------------------------------------------
(* st.session_state: the keys present and the value under each key.  A key *)
(* that is absent holds its null value here and is not in keys.            *)

SessionFields ==
    {"user_id", "username", "role", "login_time", "session_token", "session_expiry"}

EmptySessionState ==
    [keys |-> {}, authenticated |-> FALSE, user_id |-> None, username |-> None,
     role |-> None, login_time |-> None, session_token |-> None,
     session_expiry |-> None, login_attempts |-> 0]

\* st.session_state.k = v
SetKey(s, k, v) == [s EXCEPT ![k] = v, !.keys = @ \cup {k}]

\* if k not in st.session_state: st.session_state.k = v
SetDefault(s, k, v) == IF k \in s.keys THEN s ELSE SetKey(s, k, v)

----------------------------------------------------------------------------
(* auth/session_manager.py *)

create_session_quiet_mut(s, user_data, t, token, token_ok) ==
    LET s1 == SetKey(s, "authenticated", TRUE)
        s2 == SetKey(s1, "user_id", Some(user_data.id))
        s3 == SetKey(s2, "username", Some(user_data.username))
        s4 == SetKey(s3, "role", Some(user_data.role))
        s5 == SetKey(s4, "login_time", Some(t))
        s6 == SetKey(s5, "session_token", Some(token))
    IN  IF token_ok
        THEN [ok |-> TRUE,
              s |-> SetKey(s6, "session_expiry", Some(t + SESSION_TIMEOUT_MINUTES))]
        ELSE [ok |-> TRUE, s |-> s]

create_session_mut(s, user_data, t, token, token_ok) ==
    LET s1 == SetKey(s, "authenticated", TRUE)
        s2 == SetKey(s1, "user_id", Some(user_data.id))
        s3 == SetKey(s2, "username", Some(user_data.username))
        s4 == SetKey(s3, "role", Some(user_data.role))
        s5 == SetKey(s4, "login_time", Some(t))
    IN  IF token_ok
        THEN [ok |-> TRUE, s |-> SetKey(s5, "session_token", Some(token))]
        ELSE [ok |-> FALSE, s |-> s]

\* result: the value returned and the session state left behind.
\* token_ok = FALSE: secrets.token_hex raises before anything is stored, and
\* the except branch returns False.
create_session(s, user_data, t, token, token_ok) ==
    LET s1 == SetKey(s, "authenticated", TRUE)
        s2 == SetKey(s1, "user_id", Some(user_data.id))
        s3 == SetKey(s2, "username", Some(user_data.username))
        s4 == SetKey(s3, "role", Some(user_data.role))
        s5 == SetKey(s4, "login_time", Some(t))
        s6 == SetKey(s5, "session_token", Some(token))
    IN  IF token_ok
        THEN [ok |-> TRUE,
              s |-> SetKey(s6, "session_expiry", Some(t + SESSION_TIMEOUT_MINUTES))]
        ELSE [ok |-> FALSE, s |-> s]

clear_session_reset_mut(s) ==
    LET s1 == SetKey(s, "authenticated", FALSE)
        s2 == SetKey(s1, "user_id", None)
        s3 == SetKey(s2, "username", None)
        s4 == SetKey(s3, "role", None)
        s5 == SetKey(s4, "login_time", None)
        s6 == SetKey(s5, "session_token", None)
        s7 == SetKey(s6, "session_expiry", None)
    IN  SetKey(s7, "login_attempts", 0)

clear_session_mut(s) ==
    LET s1 == SetKey(s, "authenticated", FALSE)
        s2 == SetKey(s1, "user_id", None)
        s3 == SetKey(s2, "username", None)
        s4 == SetKey(s3, "role", None)
        s5 == SetKey(s4, "login_time", None)
    IN  SetKey(s5, "session_expiry", None)

clear_session(s) ==
    LET s1 == SetKey(s, "authenticated", FALSE)
        s2 == SetKey(s1, "user_id", None)
        s3 == SetKey(s2, "username", None)
        s4 == SetKey(s3, "role", None)
        s5 == SetKey(s4, "login_time", None)
        s6 == SetKey(s5, "session_token", None)
    IN  SetKey(s6, "session_expiry", None)

logout_user_mut(s) == [ok |-> s.authenticated, s |-> clear_session(s)]

\* auth/auth_manager.py, logout_user: return clear_session(); the value
\* returned and the session state left behind
logout_user(s) == [ok |-> TRUE, s |-> clear_session(s)]

is_expired_mut(t, session_expiry) == t >= session_expiry

\* datetime.now() > session_expiry
is_expired(t, session_expiry) == t > session_expiry

slide_short_mut(s, t) == SetKey(s, "session_expiry", Some(t))

slide_mut(s, t) == s

\* st.session_state.session_expiry = datetime.now() + timedelta(minutes=SESSION_TIMEOUT_MINUTES)
slide(s, t) == SetKey(s, "session_expiry", Some(t + SESSION_TIMEOUT_MINUTES))

check_session_timeout_mut(s, t) ==
    IF ~s.authenticated
    THEN [ok |-> FALSE, s |-> s]
    ELSE IF s.session_expiry = None
    THEN [ok |-> FALSE, s |-> clear_session(s)]
    ELSE IF is_expired(t, s.session_expiry[1])
    THEN [ok |-> FALSE, s |-> clear_session(s)]
    ELSE [ok |-> TRUE, s |-> slide(s, t)]

\* result: the value returned and the session state left behind
check_session_timeout(s, t) ==
    IF ~s.authenticated
    THEN [ok |-> FALSE, s |-> s]
    ELSE IF s.session_expiry = None
    THEN [ok |-> FALSE, s |-> s]
    ELSE IF is_expired(t, s.session_expiry[1])
    THEN [ok |-> FALSE, s |-> clear_session(s)]
    ELSE [ok |-> TRUE, s |-> slide(s, t)]

validate_session(s, t) == check_session_timeout(s, t)

----------------------------------------------------------------------------
(* The two security.yaml files.  pages/login.py loads                      *)
(* Path(__file__).parent / "config" / "security.yaml", that is             *)
(* pages/config/security.yaml; pages/System_Configuration.py loads and     *)
(* saves Path(__file__).parent.parent / "config" / "security.yaml".  A     *)
(* missing file or a missing option is None.                               *)

EmptyConfig == [session_timeout_minutes |-> None, max_login_attempts |-> None]

config_get_mut(config, key, default) == default

\* config.get(key, default)
config_get(config, key, default) ==
    IF config[key] = None THEN default ELSE config[key][1]

\* contents pages/config/security.yaml may have when the context starts
LoginConfigs ==
    {EmptyConfig, [session_timeout_minutes |-> None, max_login_attempts |-> Some(2)]}

\* values the number inputs of the Security tab are set to before saving
SavedTimeouts == {60}

SavedMaxAttempts == {5}

----------------------------------------------------------------------------
(* The trace of one script run: its inputs, the state it started from, the *)
(* collaborators it called and what it showed.                             *)

NoCheck(s) == [ok |-> FALSE, s |-> s]

NoAuth == [user |-> None, found |-> None, verify_called |-> FALSE, raised |-> FALSE]

\* what the trace keeps of the authenticator's result
AuthTrace(user_data) ==
    [user |-> user_data.user, found |-> user_data.found,
     verify_called |-> user_data.verify_called, raised |-> user_data.raised]

\* db_ok: the users table could be read when authenticate_user asked for it;
\* token_ok: secrets.token_hex gave a token when create_session asked for it;
\* create_called: create_session was called;
\* update_called, updated: update_last_login was called, and what it returned
IdleRun ==
    [page |-> "none", at |-> 0, pre |-> EmptySessionState,
     pre_hist |-> [login_at |-> None, active_at |-> None, created |-> None],
     submit |-> FALSE, username |-> "", password |-> "",
     auth_called |-> FALSE, auth |-> NoAuth, login_ok |-> FALSE,
     db_ok |-> TRUE, token_ok |-> TRUE, create_called |-> FALSE,
     update_called |-> FALSE, updated |-> FALSE,
     checks |-> 0, check |-> NoCheck(EmptySessionState),
     outcome |-> "none", body |-> FALSE, logout |-> FALSE, redirect |-> ""]

----------------------------------------------------------------------------
(* pages/login.py *)

initialize_session_state(s) ==
    LET s1 == SetDefault(s, "authenticated", FALSE)
        s2 == SetDefault(s1, "user_id", None)
        s3 == SetDefault(s2, "username", None)
        s4 == SetDefault(s3, "role", None)
        s5 == SetDefault(s4, "login_time", None)
    IN  SetDefault(s5, "login_attempts", 0)

reset_attempts_mut(s) == s

\* st.session_state.login_attempts = 0
reset_attempts(s) == SetKey(s, "login_attempts", 0)

record_failure_mut(s) == SetKey(s, "login_attempts", s.login_attempts + 2)

\* st.session_state.login_attempts += 1
record_failure(s) == SetKey(s, "login_attempts", s.login_attempts + 1)

login_result_mut(last_login_updated) == last_login_updated

\* update_last_login(user_data['id']) and, whatever it returned, return True
login_result(last_login_updated) == TRUE

handle_login_mut(s, username, password, t, token, db_ok, token_ok, update_ok, table) ==
    Bind(authenticate_user(s, username, password, db_ok, table), LAMBDA user_data :
    Bind(IF user_data.user # None
         THEN create_session(user_data.s, user_data.user[1], t, token, token_ok)
         ELSE [ok |-> FALSE, s |-> user_data.s], LAMBDA session_created :
    IF user_data.user # None /\ session_created.ok
    THEN LET u  == user_data.user[1]
             s1 == SetKey(session_created.s, "authenticated", TRUE)
             s2 == SetKey(s1, "user_id", Some(u.id))
             s3 == SetKey(s2, "username", Some(u.username))
             s4 == SetKey(s3, "role", Some(u.role))
             s5 == SetKey(s4, "login_time", Some(t))
             updated == update_last_login(u.id, update_ok)
         IN  [ok |-> login_result(updated), s |-> reset_attempts(s5),
              table |-> user_data.table, auth |-> user_data, create_called |-> TRUE,
              update_called |-> TRUE, updated |-> updated]
    ELSE [ok |-> FALSE,
          s |-> IF user_data.found = None THEN session_created.s
               ELSE record_failure(session_created.s),
          table |-> user_data.table, auth |-> user_data,
          create_called |-> user_data.user # None,
          update_called |-> FALSE, updated |-> FALSE]))

\* result: the value returned, the session state and the users table left
\* behind, the authenticator's result, and the calls of create_session and
\* update_last_login
handle_login(s, username, password, t, token, db_ok, token_ok, update_ok, table) ==
    Bind(authenticate_user(s, username, password, db_ok, table), LAMBDA user_data :
    Bind(IF user_data.user # None
         THEN create_session(user_data.s, user_data.user[1], t, token, token_ok)
         ELSE [ok |-> FALSE, s |-> user_data.s], LAMBDA session_created :
    IF user_data.user # None /\ session_created.ok
    THEN LET u  == user_data.user[1]
             s1 == SetKey(session_created.s, "authenticated", TRUE)
             s2 == SetKey(s1, "user_id", Some(u.id))
             s3 == SetKey(s2, "username", Some(u.username))
             s4 == SetKey(s3, "role", Some(u.role))
             s5 == SetKey(s4, "login_time", Some(t))
             updated == update_last_login(u.id, update_ok)
         IN  [ok |-> login_result(updated), s |-> reset_attempts(s5),
              table |-> user_data.table, auth |-> user_data, create_called |-> TRUE,
              update_called |-> TRUE, updated |-> updated]
    ELSE [ok |-> FALSE,
          s |-> record_failure(session_created.s),
          table |-> user_data.table, auth |-> user_data,
          create_called |-> user_data.user # None,
          update_called |-> FALSE, updated |-> FALSE]))

\* result: the value returned, the session state left behind, the checks made
check_existing_session(s, t) ==
    IF s.authenticated
    THEN Bind(check_session_timeout(s, t), LAMBDA r :
         IF r.ok
         THEN [ok |-> TRUE, s |-> r.s, checks |-> 1, check |-> r]
         ELSE [ok |-> FALSE,
               s |-> SetKey(clear_session(r.s), "authenticated", FALSE),
               checks |-> 1, check |-> r])
    ELSE [ok |-> FALSE, s |-> s, checks |-> 0, check |-> NoCheck(s)]

is_locked_mut(login_attempts, max_attempts) == login_attempts > max_attempts

\* st.session_state.login_attempts >= max_attempts
is_locked(login_attempts, max_attempts) == login_attempts >= max_attempts

login_message_mut(remaining) ==
    IF remaining >= 0 THEN "invalid_credentials" ELSE "locked_out"

\* "Invalid credentials. N attempts remaining." or "Account locked due to too
\* many failed attempts."
login_message(remaining) ==
    IF remaining > 0 THEN "invalid_credentials" ELSE "locked_out"

input_missing_mut(username, password) == username = ""

\* not username or not password
input_missing(username, password) == username = "" \/ password = ""

\* result: the session state left behind, what the page showed, the screen
render_login_page(s, t, submit, username, password, token, db_ok, token_ok, update_ok, table, config) ==
    LET max_attempts == config_get(config, "max_login_attempts", DEFAULT_MAX_LOGIN_ATTEMPTS)
        quiet == [s |-> s, table |-> table, auth_called |-> FALSE, auth |-> NoAuth,
                  login_ok |-> FALSE, db_ok |-> TRUE, token_ok |-> TRUE,
                  create_called |-> FALSE, update_called |-> FALSE, updated |-> FALSE,
                  outcome |-> "login_form", screen |-> "login_form"]
    IN
    IF is_locked(s.login_attempts, max_attempts)
    THEN [quiet EXCEPT !.outcome = "locked_out", !.screen = "none"]
    ELSE IF ~submit
    THEN quiet
    ELSE IF input_missing(username, password)
    THEN [quiet EXCEPT !.outcome = "input_error"]
    ELSE Bind(handle_login(s, username, password, t, token, db_ok, token_ok, update_ok,
                           table), LAMBDA h :
         LET called == [quiet EXCEPT !.s = h.s, !.table = h.table, !.auth_called = TRUE,
                                     !.auth = AuthTrace(h.auth), !.db_ok = db_ok,
                                     !.token_ok = token_ok,
                                     !.create_called = h.create_called,
                                     !.update_called = h.update_called,
                                     !.updated = h.updated]
         IN
         IF h.ok
         THEN [called EXCEPT !.login_ok = TRUE, !.outcome = "success", !.screen = "none"]
         ELSE [called EXCEPT !.outcome = login_message(max_attempts - h.s.login_attempts)])

\* st.session_state.role.upper() raises on None; otherwise the page switches
\* to pages/Dashboard_Overview.py
render_authenticated_page(s) ==
    IF s.role = None
    THEN [outcome |-> "error", redirect |-> ""]
    ELSE [outcome |-> "redirect", redirect |-> "pages/Dashboard_Overview.py"]

\* main() of pages/login.py: the trace of the run and the screen it leaves
login_main(s, h, t, submit, username, password, token, db_ok, token_ok, update_ok, table, config) ==
    Bind(initialize_session_state(s), LAMBDA s1 :
    Bind(check_existing_session(s1, t), LAMBDA ces :
    LET base == [IdleRun EXCEPT !.page = "login", !.at = t, !.pre = s, !.pre_hist = h,
                                !.checks = ces.checks, !.check = ces.check]
    IN
    IF ces.ok
    THEN LET a == render_authenticated_page(ces.s) IN
         [s |-> ces.s, table |-> table, screen |-> "none",
          run |-> [base EXCEPT !.outcome = a.outcome, !.redirect = a.redirect]]
    ELSE Bind(render_login_page(ces.s, t, submit, username, password, token,
                                db_ok, token_ok, update_ok, table, config), LAMBDA r :
         [s |-> r.s, table |-> r.table, screen |-> r.screen,
          run |-> [base EXCEPT !.submit = submit, !.username = username,
                               !.password = password, !.auth_called = r.auth_called,
                               !.auth = r.auth, !.login_ok = r.login_ok,
                               !.db_ok = r.db_ok, !.token_ok = r.token_ok,
                               !.create_called = r.create_called,
                               !.update_called = r.update_called,
                               !.updated = r.updated, !.outcome = r.outcome]])))

----------------------------------------------------------------------------
(* pages/Login.py: the older login form, over the users table of fyp.db    *)

\* hashlib.sha256(password.encode()).hexdigest(), as an ideal hash
sha256(password) == <<"sha256", password>>

\* fyp.db after init_admin(): the admin row with the sha256 of 'admin'
LegacyUserTable == {[username |-> "admin", password |-> sha256("admin")]}

\* what the user types into the form of pages/Login.py
LegacyFormInputs ==
    { [username |-> "admin", password |-> "admin"],
      [username |-> "admin", password |-> "wrong"],
      [username |-> "bob", password |-> "admin"] }

verify_credentials(username, password) ==
    \E row \in LegacyUserTable :
        row.username = username /\ row.password = sha256(password)

\* the __main__ block of pages/Login.py; on_screen tells which of its widgets
\* the previous run drew.  legacy_db_ok = FALSE: fyp.db has no users table and
\* init_admin() raises.
legacy_main(s, h, t, on_screen, submit, logout, username, password, legacy_db_ok) ==
    Bind(SetDefault(s, "authenticated", FALSE), LAMBDA s1 :
    LET base == [IdleRun EXCEPT !.page = "Login", !.at = t, !.pre = s, !.pre_hist = h]
    IN
    IF ~s1.authenticated
    THEN IF ~legacy_db_ok
         THEN [s |-> s1, screen |-> "none", run |-> [base EXCEPT !.outcome = "error"]]
         ELSE IF submit /\ on_screen = "legacy_form"
         THEN IF verify_credentials(username, password)
              THEN [s |-> SetKey(SetKey(s1, "authenticated", TRUE),
                                 "username", Some(username)),
                    screen |-> "none",
                    run |-> [base EXCEPT !.submit = TRUE, !.username = username,
                                         !.password = password, !.outcome = "success"]]
              ELSE [s |-> s1, screen |-> "legacy_form",
                    run |-> [base EXCEPT !.submit = TRUE, !.username = username,
                                         !.password = password,
                                         !.outcome = "invalid_credentials"]]
         ELSE [s |-> s1, screen |-> "legacy_form",
               run |-> [base EXCEPT !.outcome = "login_form"]]
    ELSE IF logout /\ on_screen = "legacy_welcome"
         THEN [s |-> SetKey(s1, "authenticated", FALSE), screen |-> "none",
               run |-> [base EXCEPT !.logout = TRUE, !.outcome = "logout"]]
         ELSE [s |-> s1, screen |-> "legacy_welcome",
               run |-> [base EXCEPT !.outcome = "welcome"]])

----------------------------------------------------------------------------
(* pages/Dashboard_Overview.py *)

check_authentication_mut(s, t) ==
    IF ~s.authenticated
    THEN [ok |-> FALSE, s |-> s, checks |-> 0, check |-> NoCheck(s),
          outcome |-> "access_denied"]
    ELSE Bind(check_session_timeout(s, t), LAMBDA r :
         [ok |-> r.ok, s |-> IF r.ok THEN SetKey(r.s, "role", Some("viewer")) ELSE r.s,
          checks |-> 1, check |-> r,
          outcome |-> IF r.ok THEN "rendered" ELSE "session_expired"])

\* result: whether the page goes on, the session state left behind, the checks
check_authentication(s, t) ==
    IF ~s.authenticated
    THEN [ok |-> FALSE, s |-> s, checks |-> 0, check |-> NoCheck(s),
          outcome |-> "access_denied"]
    ELSE Bind(check_session_timeout(s, t), LAMBDA r :
         [ok |-> r.ok, s |-> r.s, checks |-> 1, check |-> r,
          outcome |-> IF r.ok THEN "rendered" ELSE "session_expired"])

\* main() of pages/Dashboard_Overview.py.  render_header() calls
\* st.session_state.get('role', 'Unknown').upper(), which raises on None.
dashboard_main(s, h, t, on_screen, logout) ==
    Bind(check_authentication(s, t), LAMBDA ca :
    LET base == [IdleRun EXCEPT !.page = "Dashboard_Overview", !.at = t, !.pre = s,
                                !.pre_hist = h, !.checks = ca.checks, !.check = ca.check]
    IN
    IF ~ca.ok
    THEN [s |-> ca.s, screen |-> "none",
          run |-> [base EXCEPT !.outcome = ca.outcome, !.redirect = "app.py"]]
    ELSE IF "role" \in ca.s.keys /\ ca.s.role = None
    THEN [s |-> ca.s, screen |-> "none", run |-> [base EXCEPT !.outcome = "error"]]
    ELSE IF logout /\ on_screen = "dashboard"
    THEN [s |-> SetKey(clear_session(ca.s), "authenticated", FALSE), screen |-> "none",
          run |-> [base EXCEPT !.logout = TRUE, !.outcome = "logout",
                               !.redirect = "app.py"]]
    ELSE [s |-> ca.s, screen |-> "dashboard",
          run |-> [base EXCEPT !.outcome = "rendered", !.body = TRUE]])

----------------------------------------------------------------------------
(* pages/System_Configuration.py *)

\* main() with the Security tab: the page looks at st.session_state only,
\* and "Save Security Settings" writes <root>/config/security.yaml
sysconfig_main(s, h, t, on_screen, save, new_config, yaml) ==
    LET base == [IdleRun EXCEPT !.page = "System_Configuration", !.at = t, !.pre = s,
                                !.pre_hist = h]
    IN
    IF ~s.authenticated
    THEN [s |-> s, screen |-> "none", yaml |-> yaml,
          run |-> [base EXCEPT !.outcome = "login_required"]]
    ELSE IF s.role # Some("admin")
    THEN [s |-> s, screen |-> "none", yaml |-> yaml,
          run |-> [base EXCEPT !.outcome = "access_denied"]]
    ELSE [s |-> s, screen |-> "sysconfig",
          yaml |-> IF save /\ on_screen = "sysconfig" THEN new_config ELSE yaml,
          run |-> [base EXCEPT !.outcome = IF save /\ on_screen = "sysconfig"
                                           THEN "saved" ELSE "rendered",
                               !.body = TRUE]]

----------------------------------------------------------------------------
(* pages/Server_Performance.py *)

\* main() looks at no session field: it draws the dashboard for whoever asks.
\* (Its network_history keys are no part of the session and are left out.)
server_performance_main(s, h, t) ==
    [s |-> s, screen |-> "none",
     run |-> [IdleRun EXCEPT !.page = "Server_Performance", !.at = t, !.pre = s,
                             !.pre_hist = h, !.outcome = "rendered", !.body = TRUE]]

----------------------------------------------------------------------------
(* History of the session, kept for the statements about elapsed time:     *)
(* login_at is the time of the last successful handle_login for as long as *)
(* check_session_timeout has not been called since; active_at is the time  *)
(* of the last successful handle_login or valid check_session_timeout for  *)
(* as long as the user has not been logged out; created is the user_id,    *)
(* username and role of the user record the last successful handle_login   *)
(* gave to create_session, for as long as no check has found the session   *)
(* invalid and the user has not been logged out.                           *)

NoHistory == [login_at |-> None, active_at |-> None, created |-> None]

next_hist(h, r) ==
    IF r.login_ok
    THEN [login_at |-> Some(r.at), active_at |-> Some(r.at),
          created |-> Some([user_id |-> Some(r.auth.user[1].id),
                            username |-> Some(r.auth.user[1].username),
                            role |-> Some(r.auth.user[1].role)])]
    ELSE IF r.checks > 0
    THEN [login_at |-> None,
          active_at |-> IF r.check.ok /\ ~r.logout THEN Some(r.at) ELSE None,
          created |-> IF r.check.ok /\ ~r.logout THEN h.created ELSE None]
    ELSE IF r.logout
    THEN [h EXCEPT !.active_at = None, !.created = None]
    ELSE h

----------------------------------------------------------------------------
(* The state machine: one action per script run, and the clock *)

Init ==
    /\ now = 0
    /\ ss = EmptySessionState
    /\ users = UserTable
    /\ security_yaml = EmptyConfig
    /\ login_config \in LoginConfigs
    /\ screen = "none"
    /\ run = IdleRun
    /\ hist = NoHistory

Tick ==
    \E d \in TimeDeltas :
        /\ now + d <= MaxNow
        /\ now' = now + d
        /\ run' = IdleRun
        /\ UNCHANGED <<ss, users, security_yaml, login_config, screen, hist>>

\* the credentials of the active account
GoodInput == [username |-> "admin", password |-> "admin"]

\* the user opens pages/login.py, or submits its form.  The database fails
\* under the credentials that would otherwise log in: a lookup that fails
\* gives None whatever the name, and create_session and update_last_login
\* are called only after authenticate_user returned a user.
LoginPage ==
    \E submit \in BOOLEAN, input \in FormInputs \cup {NoInput}, db_ok \in BOOLEAN,
       token_ok \in BOOLEAN, update_ok \in BOOLEAN :
        /\ submit => screen = "login_form" /\ input \in FormInputs
        /\ ~submit => input = NoInput /\ db_ok /\ token_ok /\ update_ok
        /\ ~db_ok => input = GoodInput /\ token_ok /\ update_ok
        /\ ~token_ok => input = GoodInput /\ update_ok
        /\ ~update_ok => input = GoodInput
        /\ \E m \in {login_main(ss, hist, now, submit, input.username, input.password,
                               fresh_token(ss), db_ok, token_ok, update_ok, users,
                               login_config)} :
               /\ ss' = m.s
               /\ users' = m.table
               /\ screen' = m.screen
               /\ run' = m.run
               /\ hist' = next_hist(hist, m.run)
        /\ UNCHANGED <<now, security_yaml, login_config>>

\* the user opens pages/Login.py, submits its form or presses its Logout
LegacyLoginPage ==
    \E submit \in BOOLEAN, logout \in BOOLEAN,
       input \in LegacyFormInputs \cup {NoInput}, legacy_db_ok \in BOOLEAN :
        /\ ~(submit /\ logout)
        /\ submit => screen = "legacy_form" /\ input \in LegacyFormInputs
        /\ logout => screen = "legacy_welcome"
        /\ ~submit => input = NoInput
        /\ \E m \in {legacy_main(ss, hist, now, screen, submit, logout, input.username,
                                input.password, legacy_db_ok)} :
               /\ ss' = m.s
               /\ screen' = m.screen
               /\ run' = m.run
               /\ hist' = next_hist(hist, m.run)
        /\ UNCHANGED <<now, users, security_yaml, login_config>>

DashboardPage_mut ==
    \E logout \in BOOLEAN :
        /\ logout => screen = "dashboard"
        /\ \E m \in {dashboard_main(IF \E u \in users : Some(u.id) = ss.user_id /\ ~u.active
                                   THEN clear_session(ss) ELSE ss,
                                   hist, now, screen, logout)} :
               /\ ss' = m.s
               /\ screen' = m.screen
               /\ run' = m.run
               /\ hist' = next_hist(hist, m.run)
        /\ UNCHANGED <<now, users, security_yaml, login_config>>

\* the user opens pages/Dashboard_Overview.py, or presses its Logout
DashboardPage ==
    \E logout \in BOOLEAN :
        /\ logout => screen = "dashboard"
        /\ \E m \in {dashboard_main(ss, hist, now, screen, logout)} :
               /\ ss' = m.s
               /\ screen' = m.screen
               /\ run' = m.run
               /\ hist' = next_hist(hist, m.run)
        /\ UNCHANGED <<now, users, security_yaml, login_config>>

\* the user opens pages/System_Configuration.py, or saves the Security tab.
\* One administrative change is followed per context: the settings are saved
\* while the users table is as it was at the start, and a row of the table
\* is changed while the settings are as they were.
SystemConfigurationPage ==
    \E save \in BOOLEAN, timeout \in SavedTimeouts, attempts \in SavedMaxAttempts :
        /\ save => screen = "sysconfig" /\ users = UserTable
        /\ LET new_config == [session_timeout_minutes |-> Some(timeout),
                              max_login_attempts |-> Some(attempts)]
           IN  \E m \in {sysconfig_main(ss, hist, now, screen, save, new_config,
                                        security_yaml)} :
               /\ ss' = m.s
               /\ screen' = m.screen
               /\ security_yaml' = m.yaml
               /\ run' = m.run
               /\ hist' = next_hist(hist, m.run)
        /\ UNCHANGED <<now, users, login_config>>

\* the user opens pages/Server_Performance.py
ServerPerformancePage ==
    /\ \E m \in {server_performance_main(ss, hist, now)} :
           /\ ss' = m.s
           /\ screen' = m.screen
           /\ run' = m.run
           /\ hist' = next_hist(hist, m.run)
    /\ UNCHANGED <<now, users, security_yaml, login_config>>

\* an administrator of the database gives another role to an active user
\* (UPDATE users SET role = ...), once per user; no page of the context
\* takes part
RoleChange ==
    \E u \in users, r \in Roles :
        /\ u \in UserTable
        /\ security_yaml = EmptyConfig
        /\ u.active
        /\ r # u.role
        /\ users' = (users \ {u}) \cup {[u EXCEPT !.role = r]}
        /\ run' = IdleRun
        /\ UNCHANGED <<now, ss, security_yaml, login_config, screen, hist>>

\* an administrator of the database deactivates a user whose row is as it
\* was at the start (UPDATE users SET active = 0)
Deactivation ==
    \E u \in users :
        /\ u \in UserTable
        /\ security_yaml = EmptyConfig
        /\ u.active
        /\ users' = (users \ {u}) \cup {[u EXCEPT !.active = FALSE]}
        /\ run' = IdleRun
        /\ UNCHANGED <<now, ss, security_yaml, login_config, screen, hist>>

\* a hash a row may be given that bcrypt did not make: the sha256 digest
\* pages/Login.py keeps in fyp.db
StoredHashes == {sha256("admin")}

\* the password_hash of an active user whose row is as it was at the start
\* is overwritten (UPDATE users SET password_hash = ...)
PasswordHashChange ==
    \E u \in users, h \in StoredHashes :
        /\ u \in UserTable
        /\ security_yaml = EmptyConfig
        /\ u.active
        /\ users' = (users \ {u}) \cup {[u EXCEPT !.password_hash = h]}
        /\ run' = IdleRun
        /\ UNCHANGED <<now, ss, security_yaml, login_config, screen, hist>>

Next ==
    \/ Tick
    \/ RoleChange
    \/ Deactivation
    \/ PasswordHashChange
    \/ LoginPage
    \/ LegacyLoginPage
    \/ DashboardPage
    \/ SystemConfigurationPage
    \/ ServerPerformancePage

Spec == Init /\ [][Next]_vars

----------------------------------------------------------------------------
(* Vocabulary of the statements below *)

\* the session of the context is fully populated
Populated(s) == s.authenticated /\ \A f \in SessionFields : s[f] # None

\* the session of the context is fully cleared (a key that is absent counts)
Cleared(s) == ~s.authenticated /\ \A f \in SessionFields : s[f] = None

\* max_attempts as render_login_page reads it
MaxAttempts == config_get(login_config, "max_login_attempts", DEFAULT_MAX_LOGIN_ATTEMPTS)

\* the last step ran a page script
ScriptRun == run.page # "none"

\* the last step's script called check_session_timeout
Checked == ScriptRun /\ run.checks > 0

\* the last step's script called authenticate_user and got no user
FailedLogin == run.page = "login" /\ run.auth_called /\ run.auth.user = None

----------------------------------------------------------------------------
(* C1: in every reachable state the session in st.session_state is either  *)
(* fully populated (authenticated, and user_id, username, role,            *)
(* login_time, session_token, session_expiry all set) or fully cleared     *)
(* (not authenticated, all of them null or absent).                        *)

C1_SessionPopulatedOrCleared == Populated(ss) \/ Cleared(ss)

----------------------------------------------------------------------------
(* C2: for a user record with active = false and any password, the right   *)
(* one included, authenticate_user returns no user and does not call       *)
(* verify_password.                                                        *)

InactiveLookedUp ==
    /\ run.page = "login"
    /\ run.auth_called
    /\ run.auth.found # None
    /\ ~run.auth.found[1].active

C2_InactiveNeverAuthenticates ==
    InactiveLookedUp =>
        /\ run.auth.user = None
        /\ ~run.auth.verify_called
        /\ ~run.login_ok

\* an inactive account was tried with its own password
C2_Witness ==
    /\ InactiveLookedUp
    /\ run.auth.found[1].password_hash[3] = run.password

----------------------------------------------------------------------------
(* C3: once login_attempts has reached max_attempts, a run of any page     *)
(* leaves login_attempts as it is, and pages/login.py refuses every        *)
(* submission, showing the lockout, without calling authenticate_user,     *)
(* whatever password the submission carries.                               *)

C3_LockedRefusesBeforeAuthenticator ==
    (ScriptRun /\ run.pre.login_attempts >= MaxAttempts) =>
        /\ ~run.auth_called
        /\ ~run.login_ok
        /\ ss.login_attempts = run.pre.login_attempts
        /\ (run.page = "login" /\ run.submit) => run.outcome = "locked_out"

\* the right password of an active account was submitted to a locked form
C3_Witness ==
    /\ run.page = "login"
    /\ run.pre.login_attempts >= MaxAttempts
    /\ run.submit
    /\ run.username = "admin"
    /\ run.password = "admin"
    /\ run.outcome = "locked_out"

----------------------------------------------------------------------------
(* C4: a protected page draws its body only after exactly one call of      *)
(* check_session_timeout that reported the session valid, so never for a   *)
(* session that is absent or whose session_expiry has passed.              *)

C4_ProtectedPagesGated ==
    (ScriptRun /\ run.body) =>
        /\ run.checks = 1
        /\ run.check.ok
        /\ run.pre.authenticated
        /\ run.pre.session_expiry # None
        /\ run.at <= run.pre.session_expiry[1]

----------------------------------------------------------------------------
(* C5: after a session is created or a check finds it valid at time now,   *)
(* session_expiry is now plus the session_timeout_minutes stored in the    *)
(* security configuration (30 when the option is unset).                   *)

ConfiguredTimeout ==
    config_get(security_yaml, "session_timeout_minutes", DEFAULT_SESSION_TIMEOUT)

C5_ExpiryUsesConfiguredTimeout ==
    (ScriptRun /\ (run.login_ok \/ (run.checks > 0 /\ run.check.ok /\ ~run.logout))) =>
        ss.session_expiry = Some(run.at + ConfiguredTimeout)

----------------------------------------------------------------------------
(* C6: check_session_timeout called on an active session at a time not     *)
(* after session_expiry (the very minute of expiry included) returns valid *)
(* and sets session_expiry to that time plus the timeout.                  *)

C6_ValidCheckSlides ==
    (/\ Checked
     /\ run.pre.authenticated
     /\ run.pre.session_expiry # None
     /\ run.at <= run.pre.session_expiry[1]) =>
        /\ run.check.ok
        /\ run.check.s.authenticated
        /\ run.check.s.session_expiry = Some(run.at + SESSION_TIMEOUT_MINUTES)

\* a check made at the very time of expiry
C6_Witness ==
    /\ Checked
    /\ run.pre.authenticated
    /\ run.pre.session_expiry = Some(run.at)
    /\ run.at > 0

----------------------------------------------------------------------------
(* C7: when more than the timeout has passed since a successful login and  *)
(* check_session_timeout has not been called in between, the next call     *)
(* returns false and leaves every session field cleared.                   *)

C7_IdleSessionExpires ==
    (/\ Checked
     /\ run.pre_hist.login_at # None
     /\ run.at > run.pre_hist.login_at[1] + SESSION_TIMEOUT_MINUTES) =>
        /\ ~run.check.ok
        /\ Cleared(run.check.s)
        /\ run.outcome \notin {"redirect", "rendered"}

\* the first check after a login comes too late
C7_Witness ==
    /\ Checked
    /\ run.pre_hist.login_at # None
    /\ run.at > run.pre_hist.login_at[1] + SESSION_TIMEOUT_MINUTES
    /\ Populated(run.pre)

----------------------------------------------------------------------------
(* C8: as long as the user is not logged out, a check made no later than   *)
(* the timeout after the login or the previous valid check returns valid   *)
(* and the session stays in place.                                         *)

C8_ContinuousActivityStaysValid ==
    (/\ Checked
     /\ run.pre_hist.active_at # None
     /\ run.at <= run.pre_hist.active_at[1] + SESSION_TIMEOUT_MINUTES) =>
        /\ run.check.ok
        /\ Populated(run.check.s)
        /\ ~run.logout => Populated(ss)

\* a check that is valid although the window of the login itself is over
C8_Witness ==
    /\ Checked
    /\ run.check.ok
    /\ run.pre_hist.active_at # None
    /\ run.pre.login_time # None
    /\ run.at > run.pre.login_time[1] + SESSION_TIMEOUT_MINUTES

----------------------------------------------------------------------------
(* C9: a successful login (handle_login returning True) leaves             *)
(* login_attempts at 0, whatever it was before.                            *)

C9_SuccessResetsAttempts ==
    (run.page = "login" /\ run.login_ok) => ss.login_attempts = 0

\* a login that succeeded after failures
C9_Witness ==
    /\ run.page = "login"
    /\ run.login_ok
    /\ run.pre.login_attempts > 0

----------------------------------------------------------------------------
(* C10, as claimed: with max_attempts = 5 each of five consecutive failed  *)
(* logins shows the invalid-credentials outcome, and a sixth submission    *)
(* shows the locked-out outcome.                                           *)

C10_FiveFailuresAllInvalid ==
    (run.page = "login" /\ MaxAttempts = 5) =>
        /\ (FailedLogin /\ ss.login_attempts \in 1..5) =>
               run.outcome = "invalid_credentials"
        /\ (run.submit /\ run.pre.login_attempts = 5) => run.outcome = "locked_out"

(* C10, amended: with max_attempts = 5 the first four consecutive failed   *)
(* logins show the invalid-credentials outcome, the fifth failed login     *)
(* shows the locked-out outcome, and a sixth submission shows the          *)
(* locked-out outcome without authenticate_user being called.              *)

C10_FifthFailureShowsLocked ==
    (run.page = "login" /\ MaxAttempts = 5) =>
        /\ FailedLogin => ss.login_attempts = run.pre.login_attempts + 1
        /\ (FailedLogin /\ ss.login_attempts \in 1..4) =>
               run.outcome = "invalid_credentials"
        /\ (FailedLogin /\ ss.login_attempts = 5) => run.outcome = "locked_out"
        /\ (run.submit /\ run.pre.login_attempts = 5) =>
               run.outcome = "locked_out" /\ ~run.auth_called

\* the fifth failed login in a row
C10_Witness ==
    /\ MaxAttempts = 5
    /\ FailedLogin
    /\ run.pre.login_attempts = 4
    /\ ss.login_attempts = 5

----------------------------------------------------------------------------
(* C11: right after handle_login succeeded, check_existing_session and     *)
(* validate_session, called at that time on the session state it left,     *)
(* return true, and the session carries the username that was submitted    *)
(* and the role of that user's record.                                     *)

C11_LoginThenSessionValid ==
    (run.page = "login" /\ run.login_ok) =>
        /\ check_existing_session(ss, now).ok
        /\ validate_session(ss, now).ok
        /\ ss.authenticated
        /\ ss.username = Some(run.username)
        /\ ss.role = Some(run.auth.user[1].role)

\* a login of the active account after its role was changed
C11_Witness ==
    /\ run.page = "login"
    /\ run.login_ok
    /\ run.username = "admin"
    /\ run.password = "admin"
    /\ ss.role = Some("viewer")

----------------------------------------------------------------------------
(* C12: clear_session is idempotent.  Called on any session state it       *)
(* leaves every session field cleared, called again it leaves that state   *)
(* as it is, logout_user reports success both times, and on a session      *)
(* that is cleared already it changes no value of the session.  When       *)
(* check_session_timeout has cleared an expired session and                *)
(* check_existing_session clears it once more, the second call changes     *)
(* nothing.                                                                *)

\* the values of the session, a key that is absent reading as None
SessionView(s) == [f \in SessionFields \cup {"authenticated"} |-> s[f]]

C12_ClearSessionIdempotent ==
    /\ Cleared(clear_session(ss))
    /\ clear_session(clear_session(ss)) = clear_session(ss)
    /\ logout_user(ss).ok
    /\ logout_user(logout_user(ss).s).ok
    /\ logout_user(logout_user(ss).s).s = logout_user(ss).s
    /\ Cleared(ss) =>
           /\ SessionView(clear_session(ss)) = SessionView(ss)
           /\ clear_session(ss).login_attempts = ss.login_attempts
    /\ (run.page = "login" /\ run.checks = 1 /\ ~run.check.ok /\ ~run.login_ok) =>
           SessionView(ss) = SessionView(clear_session(run.check.s))

\* an expired session cleared by check_session_timeout and cleared again by
\* check_existing_session
C12_Witness ==
    /\ run.page = "login"
    /\ run.checks = 1
    /\ ~run.check.ok
    /\ Populated(run.pre)
    /\ Cleared(run.check.s)
    /\ Cleared(ss)

----------------------------------------------------------------------------
(* C13: every failed authentication, whether the user was not found, the   *)
(* account is inactive or the password is wrong, adds exactly one to       *)
(* login_attempts, a run that does not call authenticate_user adds         *)
(* nothing, and the login page refuses as locked exactly when              *)
(* login_attempts has reached max_attempts: a failed attempt was admitted  *)
(* only below max_attempts, and after it the next render of the page is    *)
(* locked if and only if login_attempts is max_attempts or more.           *)

\* why authenticate_user returned no user
FailureReason ==
    IF run.auth.found = None THEN "not_found"
    ELSE IF ~run.auth.found[1].active THEN "inactive"
    ELSE "bad_password"

\* the last step's run of pages/login.py came to render_login_page
LoginPageRendered == run.page = "login" /\ run.outcome \notin {"redirect", "error"}

\* what pages/login.py shows when it is opened in the current state
NextRender ==
    login_main(ss, hist, now, FALSE, "", "", fresh_token(ss), TRUE, TRUE, TRUE, users,
               login_config).run.outcome

C13_FailureCountsOnceLocksAtMax ==
    LoginPageRendered =>
        /\ FailedLogin =>
               /\ FailureReason \in {"not_found", "inactive", "bad_password"}
               /\ ss.login_attempts = run.pre.login_attempts + 1
               /\ run.pre.login_attempts < MaxAttempts
               /\ (NextRender = "locked_out") <=> (ss.login_attempts >= MaxAttempts)
               /\ (NextRender = "locked_out") <=> (ss.login_attempts = MaxAttempts)
        /\ ~run.auth_called => ss.login_attempts = run.pre.login_attempts
        /\ (run.outcome = "locked_out" /\ ~run.auth_called) <=>
               (run.pre.login_attempts >= MaxAttempts)

\* the failure that locks the context is one of an inactive account
C13_Witness ==
    /\ FailedLogin
    /\ FailureReason = "inactive"
    /\ ss.login_attempts = MaxAttempts
    /\ NextRender = "locked_out"

----------------------------------------------------------------------------
(* C14: what a failed login gives back does not depend on why it failed.   *)
(* Whenever a submission failed, every other submission made in the same   *)
(* state that fails too (an unknown name, an inactive account, a wrong     *)
(* password, an unreadable users table) has handle_login return the same   *)
(* value, shows the same message, and leaves the same session state and    *)
(* the same screen.                                                        *)

C14_FailureOutcomeIgnoresReason ==
    FailedLogin =>
        \A input \in FormInputs, db_ok \in BOOLEAN :
            \A other \in {login_main(run.pre, run.pre_hist, run.at, TRUE,
                                     input.username, input.password,
                                     fresh_token(run.pre), db_ok, TRUE, TRUE, users,
                                     login_config)} :
                (other.run.auth_called /\ ~other.run.login_ok) =>
                    /\ other.run.login_ok = run.login_ok
                    /\ other.run.outcome = run.outcome
                    /\ other.s = ss
                    /\ other.screen = screen

\* a failure for an unknown name, after an earlier failure
C14_Witness ==
    /\ FailedLogin
    /\ FailureReason = "not_found"
    /\ run.db_ok
    /\ run.pre.login_attempts > 0

----------------------------------------------------------------------------
(* C15: while login_attempts is max_attempts or more, a run of             *)
(* pages/login.py, opened or submitted with any input, leaves              *)
(* login_attempts as it is and does not call authenticate_user.            *)

\* max_login_attempts as pages/config/security.yaml states it, 5 when it
\* states none
ConfiguredMaxAttempts ==
    IF login_config.max_login_attempts = None
    THEN DEFAULT_MAX_LOGIN_ATTEMPTS
    ELSE login_config.max_login_attempts[1]

C15_LockoutConsumesNothing ==
    /\ (run.page = "login" /\ run.pre.login_attempts >= ConfiguredMaxAttempts) =>
           /\ ss.login_attempts = run.pre.login_attempts
           /\ ~run.auth_called
    /\ ss.login_attempts >= ConfiguredMaxAttempts =>
           \A submit \in BOOLEAN, input \in FormInputs :
               \A next \in {login_main(ss, hist, now, submit, input.username,
                                       input.password, fresh_token(ss), TRUE, TRUE,
                                       TRUE, users, login_config)} :
                   /\ next.s.login_attempts = ss.login_attempts
                   /\ ~next.run.auth_called

\* a wrong password submitted to a context locked at a configured threshold
C15_Witness ==
    /\ run.page = "login"
    /\ login_config.max_login_attempts = Some(2)
    /\ run.pre.login_attempts = 2
    /\ run.submit
    /\ run.password = "wrong"
    /\ ss.login_attempts = 2

----------------------------------------------------------------------------
(* C16: when update_last_login returns False (no connection, or the UPDATE *)
(* fails), the login stands: handle_login returns True, the session is     *)
(* created and authenticated, and login_attempts is 0.                     *)

C16_LastLoginFailureKeepsLogin ==
    (run.page = "login" /\ run.update_called /\ ~run.updated) =>
        /\ run.login_ok
        /\ run.outcome = "success"
        /\ Populated(ss)
        /\ ss.username = Some(run.username)
        /\ ss.login_attempts = 0

\* the last-login update fails on a login that follows failed attempts
C16_Witness ==
    /\ run.page = "login"
    /\ run.update_called
    /\ ~run.updated
    /\ run.pre.login_attempts > 0
    /\ ss.authenticated

----------------------------------------------------------------------------
(* C17: a submission of the login form with an empty username or an empty  *)
(* password does not reach authenticate_user and leaves the session state, *)
(* login_attempts included, as it was; below max_attempts the page shows   *)
(* the input error and the form again.                                     *)

C17_EmptyFieldRejectedBeforeAuthenticator ==
    (run.page = "login" /\ run.submit /\ (run.username = "" \/ run.password = "")) =>
        /\ ~run.auth_called
        /\ ~run.login_ok
        /\ ss = run.pre
        /\ run.outcome \in {"input_error", "locked_out"}
        /\ run.pre.login_attempts < MaxAttempts =>
               /\ run.outcome = "input_error"
               /\ screen = "login_form"

\* a form with an empty password, submitted after a failed attempt
C17_Witness ==
    /\ run.page = "login"
    /\ run.submit
    /\ run.username = "admin"
    /\ run.password = ""
    /\ run.pre.login_attempts > 0
    /\ run.outcome = "input_error"
    /\ screen = "login_form"

----------------------------------------------------------------------------
(* C18: when the users table cannot be read during a login (no connection, *)
(* or the query raises), the attempt fails like any other: no user is      *)
(* returned even for the right credentials, handle_login returns False,    *)
(* the session fields stay as they were and unauthenticated,               *)
(* login_attempts grows by one, and the message is the one of a failed     *)
(* attempt.                                                                *)

C18_LookupFailureCountsAsFailure ==
    (run.page = "login" /\ run.auth_called /\ ~run.db_ok) =>
        /\ run.auth.user = None
        /\ ~run.login_ok
        /\ ~run.update_called
        /\ ~ss.authenticated
        /\ SessionView(ss) = SessionView(run.pre)
        /\ ss.login_attempts = run.pre.login_attempts + 1
        /\ run.outcome = IF MaxAttempts - ss.login_attempts > 0
                         THEN "invalid_credentials" ELSE "locked_out"

\* the right credentials of the active account, with the table unreadable
C18_Witness ==
    /\ run.page = "login"
    /\ run.auth_called
    /\ ~run.db_ok
    /\ run.username = "admin"
    /\ run.password = "admin"
    /\ ss.login_attempts = 1

----------------------------------------------------------------------------
(* C19: user_id, username and role of a live session are those of the user *)
(* record at the time create_session was called.  From then until a check  *)
(* finds the session invalid or the user is logged out they stay as they   *)
(* are, whatever pages run and whatever role the users table gives the     *)
(* user meanwhile, and a check_session_timeout that finds the session      *)
(* valid changes session_expiry and nothing else.                          *)

\* the identity fields of a session state
Identity(s) == [user_id |-> s.user_id, username |-> s.username, role |-> s.role]

C19_IdentityIsSnapshot ==
    /\ (ss.authenticated /\ hist.created # None) => Identity(ss) = hist.created[1]
    /\ (Checked /\ run.check.ok) =>
           [run.check.s EXCEPT !.session_expiry = run.pre.session_expiry] = run.pre
    /\ \A r \in {check_session_timeout(ss, now)} :
           r.ok => [r.s EXCEPT !.session_expiry = ss.session_expiry] = ss

\* a valid check of an admin session whose user is a viewer in the table by now
C19_Witness ==
    /\ Checked
    /\ run.check.ok
    /\ hist.created # None
    /\ ss.authenticated
    /\ ss.role = Some("admin")
    /\ \E u \in users : u.username = "admin" /\ u.role = "viewer"

----------------------------------------------------------------------------
(* C20: create_session overwrites what the context held.  After a          *)
(* successful login every session field is set from the user record and    *)
(* the time of the login, and the token differs from the token held        *)
(* before; the same holds for create_session called on any reachable       *)
(* session state, an authenticated one included.                           *)

C20_CreateSessionOverwrites ==
    /\ (run.page = "login" /\ run.login_ok) =>
           /\ ss.authenticated
           /\ SessionFields \subseteq ss.keys
           /\ ss.user_id = Some(run.auth.user[1].id)
           /\ ss.username = Some(run.auth.user[1].username)
           /\ ss.role = Some(run.auth.user[1].role)
           /\ ss.login_time = Some(run.at)
           /\ ss.session_expiry = Some(run.at + SESSION_TIMEOUT_MINUTES)
           /\ ss.session_token # None
           /\ ss.session_token # run.pre.session_token
    /\ \A u \in users :
           \A c \in {create_session(ss, u, now, fresh_token(ss), TRUE).s} :
               /\ c.authenticated
               /\ Identity(c) = [user_id |-> Some(u.id), username |-> Some(u.username),
                                 role |-> Some(u.role)]
               /\ c.login_time = Some(now)
               /\ c.session_expiry = Some(now + SESSION_TIMEOUT_MINUTES)
               /\ c.session_token # None
               /\ c.session_token # ss.session_token

\* a login into a context that still holds the fields of an earlier session,
\* of another role and another time
C20_Witness ==
    /\ run.page = "login"
    /\ run.login_ok
    /\ run.pre.session_token # None
    /\ run.pre.session_expiry # None
    /\ run.pre.role # None
    /\ run.pre.role # ss.role
    /\ run.pre.login_time # ss.login_time

----------------------------------------------------------------------------
(* C21 *)

\* passwords a caller may give
Passwords == {"admin", "wrong", ""}

\* stored hashes that bcrypt.checkpw does not accept: NULL, the sha256 digest
\* of another scheme, a truncated bcrypt hash and a hash with a foreign prefix
MalformedHashes ==
    {None, sha256("admin"), <<"$2b$", "s1">>, <<"$2x$", "s1", "admin">>}

\* the last run called verify_password on a row whose hash bcrypt rejects
MalformedHashVerified ==
    /\ run.page = "login"
    /\ run.auth.verify_called
    /\ ~WellFormedHash(run.auth.found[1].password_hash)

\* C21: verify_password never raises: for a malformed, foreign-format or null
\* stored hash it returns false, so a login against a row with such a hash does
\* not take the except branch of authenticate_user; it fails as a non-match:
\* no user is returned, the attempt is counted once and the failure message is
\* shown.
C21_MalformedHashFailsAsNonMatch ==
    /\ \A p \in Passwords, h \in MalformedHashes :
           \A v \in {verify_password(p, h)} : ~v.raised /\ ~v.value
    /\ MalformedHashVerified =>
           /\ ~run.auth.raised
           /\ run.auth.user = None
           /\ ~run.login_ok
           /\ ~ss.authenticated
           /\ ss.login_attempts = run.pre.login_attempts + 1
           /\ run.outcome \in {"invalid_credentials", "locked_out"}

\* the password that used to log in, given against the overwritten hash
C21_Witness ==
    /\ MalformedHashVerified
    /\ run.username = "admin"
    /\ run.password = "admin"
    /\ run.outcome = "invalid_credentials"

----------------------------------------------------------------------------
(* C22 *)

\* the last run called verify_password with a password and a stored hash that
\* hash_password made of that password
OwnHashVerified ==
    /\ run.page = "login"
    /\ run.auth.verify_called
    /\ \E salt \in Salts :
           run.auth.found[1].password_hash = hash_password(run.password, salt)

----------------------------------------------------------------------------
(* C23 *)

\* C23: authenticate_user mutates nothing: whatever the form holds, whether or
\* not the users table can be read, and whatever the outcome, the call leaves
\* the session state (login_attempts included) and the users table as they
\* were.  Session creation, the change of the counter and the last-login
\* update are done by handle_login, after authenticate_user returned:
\* create_session and update_last_login are called only when it returned a
\* user, and when it returned None the counter is one more than before and
\* nothing else of the session has changed.
C23_AuthenticatorMutatesNothing ==
    /\ \A input \in FormInputs, db_ok \in BOOLEAN :
           \A user_data \in {authenticate_user(ss, input.username, input.password,
                                               db_ok, users)} :
               user_data.s = ss /\ user_data.table = users
    /\ run.page = "login" =>
           /\ run.create_called => run.auth_called /\ run.auth.user # None
           /\ run.update_called => run.create_called /\ run.auth.user # None
           /\ ~run.auth_called => ss.login_attempts = run.pre.login_attempts
           /\ FailedLogin =>
                  /\ ~run.create_called
                  /\ ~run.update_called
                  /\ ss.login_attempts = run.pre.login_attempts + 1
                  /\ SessionView(ss) = SessionView(run.check.s) \/ Cleared(ss)

\* each outcome of authenticate_user has happened in a run
C23_Witness ==
    /\ run.page = "login"
    /\ run.auth_called
    /\ run.auth.verify_called
    /\ run.auth.user = None
    /\ run.pre.login_attempts = 1
    /\ ss.login_attempts = 2

----------------------------------------------------------------------------
(* C24 *)

\* C24: in every reachable state of a browsing context, whose
\* max_login_attempts is fixed, 0 <= login_attempts <= max_login_attempts: the
\* counter is incremented only by a submission of the login form, and the
\* form is processed only while the counter is below the threshold.
C24_AttemptsWithinThreshold ==
    /\ ss.login_attempts \in 0 .. MaxAttempts
    /\ (run.page = "login" /\ run.auth_called) =>
           /\ run.pre.login_attempts < MaxAttempts
           /\ ss.login_attempts <= run.pre.login_attempts + 1
    /\ (run.page = "login" /\ ~run.auth_called) =>
           ss.login_attempts = run.pre.login_attempts

\* a form submitted at the threshold: the counter stays where it is
C24_Witness ==
    /\ run.page = "login"
    /\ run.submit
    /\ run.pre.login_attempts = MaxAttempts
    /\ ss.login_attempts = MaxAttempts
    /\ MaxAttempts = DEFAULT_MAX_LOGIN_ATTEMPTS

----------------------------------------------------------------------------
(* C25 *)

\* the guard of the login page refuses the context
Locked == ss.login_attempts >= MaxAttempts

\* C25: lockout is absorbing within a browsing context: once login_attempts
\* has reached max_login_attempts, no step of the context (a render of the
\* login page or a submission of its form, a session check, a logout, a
\* clear_session made for an invalid session, a page of the dashboard, the
\* passing of time, a change in the users table) lowers login_attempts, so
\* the context stays locked.
C25_LockoutIsAbsorbing ==
    [][Locked => ss'.login_attempts >= ss.login_attempts]_vars

\* a locked context in which the login page found an invalid session and
\* cleared it: the counter is what it was
C25_Witness ==
    /\ Locked
    /\ run.page = "login"
    /\ run.pre.authenticated
    /\ run.pre.login_attempts >= MaxAttempts
    /\ run.checks > 0
    /\ ~run.check.ok
    /\ Cleared(ss)
    /\ run.outcome = "locked_out"

----------------------------------------------------------------------------
(* C26 *)

\* C26: across the pages that can set st.session_state.authenticated
\* (handle_login of pages/login.py and the form of pages/Login.py),
\* authenticated is never set to true while login_attempts >=
\* max_login_attempts: no reachable state has authenticated = true together
\* with a locked guard.
C26_NeverAuthenticatedWhileLocked ==
    ~(ss.authenticated /\ ss.login_attempts >= MaxAttempts)

----------------------------------------------------------------------------
(* C27 *)

\* authenticated is set and there is no session_expiry, as the form of
\* pages/Login.py leaves the session state
ExpirylessSession(s) == s.authenticated /\ s.session_expiry = None

\* C27: a session state with authenticated = true and no session_expiry is
\* never reported valid by check_session_timeout: the check returns false and
\* leaves the state as it is, without clearing it.  So Dashboard_Overview
\* denies access and authenticated stays true, until a caller invokes
\* clear_session, as check_existing_session of pages/login.py does.
C27_ExpirylessSessionNeverValid ==
    /\ ExpirylessSession(ss) =>
           \A r \in {check_session_timeout(ss, now)} : ~r.ok /\ r.s = ss
    /\ (run.page = "Dashboard_Overview" /\ ExpirylessSession(run.pre)) =>
           /\ run.checks = 1
           /\ ~run.check.ok
           /\ ~run.body
           /\ run.outcome = "session_expired"
           /\ ss = run.pre
    /\ (run.page = "login" /\ ExpirylessSession(run.pre)) =>
           /\ run.checks = 1
           /\ ~run.check.ok
           /\ ExpirylessSession(run.check.s)
           /\ run.outcome # "redirect"
           /\ ~run.login_ok => Cleared(ss)

\* the dashboard turned away a context that pages/Login.py had logged in
C27_Witness ==
    /\ run.page = "Dashboard_Overview"
    /\ ExpirylessSession(run.pre)
    /\ run.outcome = "session_expired"
    /\ ss.authenticated
    /\ ss.username = Some("admin")

----------------------------------------------------------------------------
(* C28 *)

\* in the last run authenticate_user returned a user and create_session,
\* called with it, reported failure
CreateSessionFailed ==
    /\ run.page = "login"
    /\ run.auth_called
    /\ run.auth.user # None
    /\ run.create_called
    /\ ~run.token_ok

\* C28: if authenticate_user returns a user but create_session reports
\* failure, handle_login returns False and increments login_attempts by one:
\* the request with correct credentials is counted as a failed attempt toward
\* lockout, update_last_login is not called, and the page shows the message
\* of a failed login.
C28_CreateFailureCountsAsFailure ==
    /\ \A token_ok \in BOOLEAN :
           \A h \in {handle_login(ss, GoodInput.username, GoodInput.password, now,
                                  fresh_token(ss), TRUE, token_ok, TRUE, users)} :
               (h.auth.user # None /\ ~token_ok) =>
                   /\ h.create_called
                   /\ ~h.ok
                   /\ h.s.login_attempts = ss.login_attempts + 1
    /\ CreateSessionFailed =>
           /\ ~run.login_ok
           /\ ~run.update_called
           /\ ss.login_attempts = run.pre.login_attempts + 1
           /\ run.outcome \in {"invalid_credentials", "locked_out"}

\* the failure of create_session that brings the context to the threshold
C28_Witness ==
    /\ CreateSessionFailed
    /\ run.auth.user[1].username = "admin"
    /\ ss.login_attempts = MaxAttempts
    /\ run.outcome = "locked_out"

----------------------------------------------------------------------------
(* C29 *)

\* before the last run the context held a session made by create_session that
\* no check had found invalid and no logout had ended, and the run came
\* within the timeout of the creation or of the last valid check
LiveBefore ==
    /\ ScriptRun
    /\ run.pre_hist.created # None
    /\ run.pre_hist.active_at # None
    /\ run.at <= run.pre_hist.active_at[1] + SESSION_TIMEOUT_MINUTES

\* C29: a live session is never re-validated against the users table: after
\* login, deactivating the user or overwriting the password hash (or any
\* other change of the row) does not make a later check_session_timeout
\* return false.  Every page that checks the session finds it valid as long
\* as the checks keep arriving within the timeout, and goes on as for a
\* valid session.
C29_LiveSessionNotRevalidated ==
    /\ (LiveBefore /\ run.page = "Dashboard_Overview") =>
           /\ run.checks = 1
           /\ run.check.ok
           /\ run.outcome \in {"rendered", "logout"}
    /\ (LiveBefore /\ run.page = "login") =>
           /\ run.checks = 1
           /\ run.check.ok
           /\ run.outcome = "redirect"

\* the dashboard is drawn for a user who was deactivated after logging in
C29_Witness ==
    /\ LiveBefore
    /\ run.page = "Dashboard_Overview"
    /\ run.body
    /\ run.at > run.pre_hist.active_at[1]
    /\ \E u \in users : Some(u.id) = ss.user_id /\ ~u.active

----------------------------------------------------------------------------
(* C30 *)

\* the context holds a session made by create_session that no check has
\* found invalid and no logout has ended
Live == hist.created # None

\* C30: under the non-decreasing clock, session_expiry of a live session
\* never moves backwards: every step between create_session and the
\* invalidation of the session leaves session_expiry as it is or increases
\* it; and while the session is live it is authenticated and session_expiry
\* is the time of the most recent create or valid check plus the timeout.
C30_ExpiryNeverMovesBack ==
    /\ [](Live => /\ ss.authenticated
                  /\ hist.active_at # None
                  /\ hist.active_at[1] <= now
                  /\ ss.session_expiry =
                         Some(hist.active_at[1] + SESSION_TIMEOUT_MINUTES))
    /\ [][(Live /\ Live') =>
              /\ ss'.session_expiry # None
              /\ ss'.session_expiry[1] >= ss.session_expiry[1]]_vars
    /\ [][now' >= now]_vars

\* a valid check, later than the login, has moved the expiry forward
C30_Witness ==
    /\ Live
    /\ Checked
    /\ run.check.ok
    /\ run.pre.session_expiry # None
    /\ ss.session_expiry = Some(run.at + SESSION_TIMEOUT_MINUTES)
    /\ ss.session_expiry[1] > run.pre.session_expiry[1]
    /\ ss.login_time # Some(run.at)

====
